---- MODULE Spec2Model ----
(***************************************************************************)
(* Model of the sales-lead e-mail crawler (src/email_crawler.py and its    *)
(* deployment twin src/email_crawler_render.py, whose discovery code is    *)
(* identical).                                                             *)
(*                                                                         *)
(* Text is modelled as a sequence of one-character strings, so that        *)
(* Python's substring test `a in b` and str.lower() are computed and not   *)
(* assumed.  Every spreadsheet cell is such a sequence; the empty sequence *)
(* is the empty cell and also stands for Python's None / empty string      *)
(* (both are falsy in every test the code makes).                          *)
(***************************************************************************)
EXTENDS Naturals, Sequences, FiniteSets

VARIABLES
    pc,            \* position of the single thread of main()
    sheet,         \* the worksheet: row -> column -> cell
    all_data,      \* crawl_all_companies: snapshot from get_all_values()
    email_col,     \* crawl_all_companies: column returned by add_email_column
    row_num,       \* crawl_all_companies: sheet row being processed
    page,          \* the rendered page the running resolver reads from
    naver_result,  \* find_email: dict returned by search_naver_place
    website_email, \* find_email: value returned by extract_email_from_website
    result,        \* find_email: the result dict
    emails,        \* last value of email_pattern.findall(page_source)
    driver,        \* self.driver: "none", "open" or "quit"
    exc,           \* exception that left crawl_all_companies ("none" if none)
    calls,         \* history: browser navigations/clicks of the current company
    nfail,         \* history: where the search stage failed for this company
    wfail,         \* history: where the website stage failed for this company
    written,       \* history: rows whose write-back completed in this run
    starts,        \* history: row -> number of find_email calls made for it
    quit_calls,    \* history: number of driver.quit() calls
    col_hist,      \* history: what each add_email_column call returned/wrote
    text           \* a page text handed to email_pattern.findall

vars == << pc, sheet, all_data, email_col, row_num, page, naver_result,
           website_email, result, emails, driver, exc, calls, nfail, wfail,
           written, starts, quit_calls, col_hist, text >>

(***************************************************************************)
(* Bounds of the model.                                                    *)
(***************************************************************************)
NumRows == 2       \* data rows of the worksheet (below the header row)
MaxEmails == 2     \* longest findall() result enumerated for the pure checks
MaxCalls == 2      \* add_email_column calls made in a row on one worksheet
MaxText == 6       \* longest page text handed to email_pattern.findall

(***************************************************************************)
(* Text helpers.                                                           *)
(***************************************************************************)
None == << >>

\* str.lower() on the characters the model uses
LowerChar(c) ==
    CASE c = "C" -> "c"
      [] c = "E" -> "e"
      [] c = "O" -> "o"
      [] c = "I" -> "i"
      [] OTHER -> c

Lower(s) == [i \in 1..Len(s) |-> LowerChar(s[i])]

\* Python's `t in s` for strings
Contains(s, t) ==
    \E i \in 0..Len(s) :
        /\ i + Len(t) <= Len(s)
        /\ SubSeq(s, i + 1, i + Len(t)) = t

\* str.startswith
StartsWith(s, t) == Len(t) <= Len(s) /\ SubSeq(s, 1, Len(t)) = t

Min(S) == CHOOSE x \in S : \A y \in S : x <= y

NAVER == << "n", "a", "v", "e", "r", ".", "c", "o", "m" >>
GOOGLE == << "g", "o", "o", "g", "l", "e", ".", "c", "o", "m" >>
HTTP == << "h", "t", "t", "p" >>
HTTP_PREFIX == << "h", "t", "t", "p", ":", "/", "/" >>

\* priority_keywords of extract_email_from_website, in the code's order
priority_keywords ==
    << << "c", "e", "o" >>,
       << "i", "n", "f", "o" >>,
       << "c", "o", "n", "t", "a", "c", "t" >>,
       << "a", "d", "m", "i", "n" >>,
       << "m", "a", "s", "t", "e", "r" >> >>

(***************************************************************************)
(* Addresses and links the pages of the model may show.                    *)
(***************************************************************************)
E_ceo == << "c", "e", "o", "@", "a", ".", "k", "r" >>
E_info == << "i", "n", "f", "o", "@", "a", ".", "k", "r" >>
E_InfoUp == << "I", "n", "f", "o", "@", "b", ".", "k", "r" >>
E_zzz == << "z", "z", "z", "@", "i", "n", "f", "o", ".", "c", "o" >>
E_boss == << "b", "o", "s", "s", "@", "c", "e", "o", ".", "c", "o", "m" >>
E_bob == << "b", "o", "b", "@", "a", ".", "k", "r" >>
E_admin == << "a", "d", "m", "i", "n", "@", "a", ".", "k", "r" >>
E_naver == << "h", "@", "n", "a", "v", "e", "r", ".", "c", "o", "m" >>
E_google == << "x", "@", "g", "o", "o", "g", "l", "e", ".", "c", "o", "m" >>
E_nvlocal ==
    << "n", "a", "v", "e", "r", ".", "c", "o", "m", ".", "x", "@", "a", ".",
       "k", "r" >>

EmailPool ==
    { E_ceo, E_info, E_InfoUp, E_zzz, E_boss, E_bob, E_admin, E_naver,
      E_google, E_nvlocal }

H_acme == << "h", "t", "t", "p", ":", "/", "/", "a", ".", "k", "r" >>
H_naver ==
    << "h", "t", "t", "p", ":", "/", "/", "n", "a", "v", "e", "r", ".", "c",
       "o", "m", "/", "p" >>
H_bare == << "a", ".", "k", "r", "/", "h", "t", "t", "p" >>

SeqsUpTo(S, n) == UNION { [1..k -> S] : k \in 0..n }

(***************************************************************************)
(* Pure parts of the discovery code.                                       *)
(***************************************************************************)

\* search_naver_place: the test of the valid_emails comprehension
IsValidEmail(email) == ~Contains(email, NAVER) /\ ~Contains(email, GOOGLE)

\* search_naver_place: valid_emails[0] if valid_emails else None
FirstValidEmail(es) ==
    LET valid_emails == SelectSeq(es, IsValidEmail)
    IN  IF valid_emails # << >> THEN valid_emails[1] ELSE None

\* search_naver_place: the test on one href of the homepage loop
IsHomepage(href) ==
    href # None /\ ~Contains(href, NAVER) /\ ~Contains(href, GOOGLE)

\* index of the first anchor the homepage loop accepts, 0 if it accepts none
FirstHomepageIndex(links) ==
    LET ok == {i \in 1..Len(links) : IsHomepage(links[i])}
    IN  IF ok = {} THEN 0 ELSE Min(ok)

FirstHomepage(links) ==
    IF FirstHomepageIndex(links) = 0 THEN None
    ELSE links[FirstHomepageIndex(links)]

\* extract_email_from_website: `keyword in email.lower()`
KeywordMatches(keyword, email) == Contains(Lower(email), keyword)

\* index of the first address the inner loop returns for one keyword, 0 if none
FirstMatch(keyword, es) ==
    LET hit == {i \in 1..Len(es) : KeywordMatches(keyword, es[i])}
    IN  IF hit = {} THEN 0 ELSE Min(hit)

\* a variant in which page order dominates keyword priority
PickBest_FirstSeen(es) ==
    LET hit == {i \in 1..Len(es) :
                   \E k \in 1..Len(priority_keywords) :
                       KeywordMatches(priority_keywords[k], es[i])}
    IN  IF hit # {} THEN es[Min(hit)]
        ELSE IF es # << >> THEN es[1]
        ELSE None

\* a variant without the fallback to the first address
PickBest_NoFallback(es) ==
    LET K == {k \in 1..Len(priority_keywords) :
                 FirstMatch(priority_keywords[k], es) # 0}
    IN  IF K # {} THEN es[FirstMatch(priority_keywords[Min(K)], es)]
        ELSE None

\* extract_email_from_website: the keyword loops and the fallback after them
PickBest(es) ==
    LET K == {k \in 1..Len(priority_keywords) :
                 FirstMatch(priority_keywords[k], es) # 0}
    IN  IF K # {} THEN es[FirstMatch(priority_keywords[Min(K)], es)]
        ELSE IF es # << >> THEN es[1]
        ELSE None

\* extract_email_from_website: URL normalisation
NormalizeUrl(url) == IF StartsWith(url, HTTP) THEN url ELSE HTTP_PREFIX \o url

(***************************************************************************)
(* find_email: the result dict and the tiered decision.                    *)
(***************************************************************************)
SRC_NAVER == "naver_place"          \* the label '네이버 플레이스'
SRC_WEBSITE == "company_homepage"   \* the label '회사 홈페이지'
SRC_NONE == "None"                  \* Python None in result['source']

EmptyResult == [email |-> None, source |-> SRC_NONE, confidence |-> "LOW"]

NaverFound(email) ==
    [email |-> email, source |-> SRC_NAVER, confidence |-> "HIGH"]

\* a variant that labels a website hit with the search stage's confidence
WebsiteFound_High(email) ==
    [email |-> email, source |-> SRC_WEBSITE, confidence |-> "HIGH"]

WebsiteFound(email) ==
    [email |-> email, source |-> SRC_WEBSITE, confidence |-> "MEDIUM"]

\* a variant that tries the homepage before looking at the search e-mail
StageAfterSearch_HomepageFirst(nr) ==
    IF nr.homepage # None THEN "website"
    ELSE IF nr.email # None THEN "return_naver"
    ELSE "return_empty"

\* what find_email does once search_naver_place has returned
StageAfterSearch(nr) ==
    IF nr.email # None THEN "return_naver"
    ELSE IF nr.homepage # None THEN "website"
    ELSE "return_empty"

\* a variant that drops what the website stage returned
ResultAfterWebsite_Drop(we) == EmptyResult

\* what find_email does once extract_email_from_website has returned
ResultAfterWebsite(we) == IF we # None THEN WebsiteFound(we) ELSE EmptyResult

NoNaverResult == [email |-> None, homepage |-> None, phone |-> None]

(***************************************************************************)
(* The worksheet.                                                          *)
(***************************************************************************)
HDR_EMAIL == << "email_hdr" >>     \* '대표이메일(자동수집)'
HDR_SOURCE == << "source_hdr" >>   \* '수집출처'
HDR_CONF == << "conf_hdr" >>       \* '신뢰도'
NOT_FOUND == << "not_found" >>     \* the marker '미발견'

BaseHeaders == << << "no" >>, << "company" >>, << "rep" >> >>
NumCols == Len(BaseHeaders) + 3
SheetRows == 1..(NumRows + 1)
DataRows == 2..(NumRows + 1)

\* gspread update_cell(row, col, value)
UpdateCell(s, r, c, v) == [s EXCEPT ![r][c] = v]

\* gspread row_values(1): the header row without its trailing empty cells
Headers(s) ==
    LET used == {c \in 1..NumCols : s[1][c] # None}
    IN  IF used = {} THEN << >>
        ELSE SubSeq(s[1], 1, CHOOSE c \in used : \A d \in used : d <= c)

\* list.index(x) + 1
IndexOf(seq, x) == Min({i \in 1..Len(seq) : seq[i] = x})

\* add_email_column: the sheet after the first k header writes at column col
HeaderWrites(s, col, k) ==
    LET s1 == IF k >= 1 THEN UpdateCell(s, 1, col, HDR_EMAIL) ELSE s
        s2 == IF k >= 2 THEN UpdateCell(s1, 1, col + 1, HDR_SOURCE) ELSE s1
    IN  IF k >= 3 THEN UpdateCell(s2, 1, col + 2, HDR_CONF) ELSE s2

\* a variant without the test for an existing e-mail header
AddEmailColumn_NoCheck(s, fail) ==
    LET headers == Headers(s)
    IN  IF fail = 1 THEN [sheet |-> s, col |-> 0, writes |-> 0]
        ELSE IF fail = 0
             THEN [sheet |-> HeaderWrites(s, Len(headers) + 1, 3),
                   col |-> Len(headers) + 1, writes |-> 3]
        ELSE [sheet |-> HeaderWrites(s, Len(headers) + 1, fail - 2),
              col |-> 0, writes |-> fail - 2]

\* add_email_column with `fail` the call that raises: 0 none, 1 row_values,
\* 2..4 the first..third update_cell.  Returns the sheet, the column
\* (0 for None) and the number of cells it wrote.
AddEmailColumn(s, fail) ==
    LET headers == Headers(s)
    IN  IF fail = 1 THEN [sheet |-> s, col |-> 0, writes |-> 0]
        ELSE IF \E i \in 1..Len(headers) : headers[i] = HDR_EMAIL
             THEN [sheet |-> s, col |-> IndexOf(headers, HDR_EMAIL),
                   writes |-> 0]
        ELSE IF fail = 0
             THEN [sheet |-> HeaderWrites(s, Len(headers) + 1, 3),
                   col |-> Len(headers) + 1, writes |-> 3]
        ELSE [sheet |-> HeaderWrites(s, Len(headers) + 1, fail - 2),
              col |-> 0, writes |-> fail - 2]

\* crawl_all_companies: the three values written for one result
EmailCell(res) == IF res.email # None THEN res.email ELSE NOT_FOUND
ConfCell(res) == IF res.email # None THEN << res.confidence >> ELSE << "NONE" >>

\* crawl_all_companies: whether the source cell is written at all
WritesSource(res) == res.email # None

(***************************************************************************)
(* What the outside world may hand to the program.                         *)
(***************************************************************************)
PhoneSamples == { None, << "0", "2" >> }

LinkSamples == { << >>, << H_naver >>, << H_naver, H_acme >>, << H_bare >> }

EmailSamples ==
    { << >>, << E_naver >>, << E_naver, E_info >>, << E_bob, E_ceo >> }

BlankPage == [phone |-> None, links |-> << >>, emails |-> << >>,
              contact |-> FALSE]

SearchPages ==
    [phone : PhoneSamples, links : LinkSamples, emails : EmailSamples,
     contact : {FALSE}]

WebPages ==
    [phone : {None}, links : {<< >>}, emails : EmailSamples,
     contact : BOOLEAN]

COMPANY == << "acme" >>

\* a worksheet: names[r] the company cell of row r; rerun says whether an
\* earlier run already added the reserved columns, and prior[r] what it
\* wrote for row r
MkSheet(names, rerun, prior) ==
    [r \in SheetRows |->
        [c \in 1..NumCols |->
            IF r = 1
            THEN IF c <= Len(BaseHeaders) THEN BaseHeaders[c]
                 ELSE IF ~rerun THEN None
                 ELSE << HDR_EMAIL, HDR_SOURCE, HDR_CONF >>[c - Len(BaseHeaders)]
            ELSE IF c = 1 THEN << "n" >>
            ELSE IF c = 2 THEN names[r]
            ELSE IF c = 3 THEN << "kim" >>
            ELSE IF ~rerun \/ names[r] = None THEN None
            ELSE IF prior[r] = "found"
                 THEN << E_info, << SRC_NAVER >>, << "HIGH" >> >>
                          [c - Len(BaseHeaders)]
            ELSE << NOT_FOUND, None, << "NONE" >> >>[c - Len(BaseHeaders)]]]

InitSheets ==
    { MkSheet(n, FALSE, [r \in DataRows |-> "missed"]) :
          n \in [DataRows -> {COMPANY, None}] }
    \cup
    { MkSheet(n, TRUE, p) :
          n \in [DataRows -> {COMPANY, None}],
          p \in [DataRows -> {"found", "missed"}] }

(***************************************************************************)
(* Exception handlers of the two resolvers.  `site` is the call that       *)
(* raised; each returns where control goes and what the resolver returns.  *)
(***************************************************************************)

\* a variant whose inner except also throws away the fields already found
SearchOnError_DropAll(site, nr) ==
    [pc |-> "find_decide", nr |-> NoNaverResult, exc |-> "none"]

\* search_naver_place: the inner except keeps the dict built so far, the
\* outer except returns the all-None dict
SearchOnError(site, nr) ==
    IF site = "get"
    THEN [pc |-> "find_decide", nr |-> NoNaverResult, exc |-> "none"]
    ELSE [pc |-> "find_decide", nr |-> nr, exc |-> "none"]

\* a variant that navigates again after a failed navigation
WebsiteOnError_Retry(site) ==
    [pc |-> IF site = "get" THEN "web_get" ELSE "web_return",
     email |-> None, exc |-> "none"]

\* a variant without the try/except: the exception leaves find_email
WebsiteOnError_Propagate(site) ==
    [pc |-> "finally", email |-> None, exc |-> "browser"]

\* extract_email_from_website: the except returns None
WebsiteOnError(site) == [pc |-> "web_return", email |-> None, exc |-> "none"]

(***************************************************************************)
(* The state machine: main() and everything it calls, one blocking call    *)
(* per step.                                                               *)
(***************************************************************************)
start_row == 2

\* a variant of the loop that does not advance to the next row
NextRow_Stay(r) == r

\* crawl_all_companies: `for idx in range(start_row - 1, end_row)` advancing
NextRow(r) == r + 1

Init ==
    /\ pc = "main_connect"
    /\ sheet \in InitSheets
    /\ all_data = << >>
    /\ email_col = 0
    /\ row_num = 0
    /\ page = BlankPage
    /\ naver_result = NoNaverResult
    /\ website_email = None
    /\ result = EmptyResult
    /\ emails = << >>
    /\ driver = "none"
    /\ exc = "none"
    /\ calls = << >>
    /\ nfail = "none"
    /\ wfail = "none"
    /\ written = {}
    /\ starts = [r \in DataRows |-> 0]
    /\ quit_calls = 0
    /\ col_hist = << >>
    /\ text = << >>

\* main: crawler.connect_google_sheet()
ConnectGoogleSheet ==
    /\ pc = "main_connect"
    /\ \E ok \in BOOLEAN : pc' = IF ok THEN "main_setup" ELSE "finally"
    /\ UNCHANGED << sheet, all_data, email_col, row_num, page, naver_result,
                    website_email, result, emails, driver, exc, calls, nfail,
                    wfail, written >>
    /\ UNCHANGED << starts, quit_calls, col_hist, text >>

\* how setup_selenium can end: it returns True with the driver created; it
\* raises before webdriver.Chrome() returned (no driver, returns False); or,
\* in the deployment variant, set_page_load_timeout raises after the driver
\* was assigned (driver created, returns False)
SetupOutcomes == {"ok", "no_driver", "driver_then_error"}

\* main: crawler.setup_selenium()
SetupSelenium ==
    /\ pc = "main_setup"
    /\ \E o \in SetupOutcomes :
          /\ pc' = IF o = "ok" THEN "add_col" ELSE "finally"
          /\ driver' = IF o = "no_driver" THEN driver ELSE "open"
    /\ UNCHANGED << sheet, all_data, email_col, row_num, page, naver_result,
                    website_email, result, emails, exc, calls, nfail, wfail,
                    written >>
    /\ UNCHANGED << starts, quit_calls, col_hist, text >>

\* crawl_all_companies: email_col = self.add_email_column(); return if None
AddEmailColumnStep ==
    /\ pc = "add_col"
    /\ \E fail \in 0..4 :
          LET r == AddEmailColumn(sheet, fail)
          IN  /\ sheet' = r.sheet
              /\ email_col' = r.col
              /\ pc' = IF r.col = 0 THEN "finally" ELSE "get_all"
    /\ UNCHANGED << all_data, row_num, page, naver_result, website_email,
                    result, emails, driver, exc, calls, nfail, wfail,
                    written >>
    /\ UNCHANGED << starts, quit_calls, col_hist, text >>

\* crawl_all_companies: all_data = self.sheet.get_all_values()
GetAllValues ==
    /\ pc = "get_all"
    /\ \E ok \in BOOLEAN :
          IF ok
          THEN /\ all_data' = sheet
               /\ row_num' = start_row
               /\ pc' = "loop"
               /\ exc' = exc
          ELSE /\ exc' = "sheet"
               /\ pc' = "finally"
               /\ UNCHANGED << all_data, row_num >>
    /\ UNCHANGED << sheet, email_col, page, naver_result, website_email,
                    result, emails, driver, calls, nfail, wfail, written >>
    /\ UNCHANGED << starts, quit_calls, col_hist, text >>

\* crawl_all_companies: the loop head, the company-name test and the entry
\* into find_email.  The locals of the finished iteration are dead here (each
\* is assigned again before it is read), so the step clears them together
\* with the per-company history.
LoopStep ==
    /\ pc = "loop"
    /\ IF row_num > Len(all_data)
       THEN /\ pc' = "finally"
            /\ UNCHANGED << row_num, starts >>
       ELSE IF all_data[row_num][2] = None
       THEN /\ pc' = "loop"
            /\ row_num' = NextRow(row_num)
            /\ UNCHANGED starts
       ELSE /\ pc' = "naver_get"
            /\ starts' = [starts EXCEPT ![row_num] = @ + 1]
            /\ UNCHANGED row_num
    /\ calls' = << >>
    /\ nfail' = "none"
    /\ wfail' = "none"
    /\ naver_result' = NoNaverResult
    /\ website_email' = None
    /\ result' = EmptyResult
    /\ emails' = << >>
    /\ UNCHANGED << sheet, all_data, email_col, page, driver, exc, written >>
    /\ UNCHANGED << quit_calls, col_hist, text >>

(***************************************************************************)
(* search_naver_place                                                      *)
(***************************************************************************)

\* self.driver.get(search_url), then the fresh result dict
NaverGet ==
    /\ pc = "naver_get"
    /\ calls' = Append(calls, "get_search")
    /\ \/ \E pg \in SearchPages :
             /\ page' = pg
             /\ naver_result' = NoNaverResult
             /\ pc' = "naver_phone"
             /\ UNCHANGED << nfail, exc >>
       \/ LET h == SearchOnError("get", naver_result)
          IN  /\ page' = BlankPage
              /\ naver_result' = h.nr
              /\ pc' = h.pc
              /\ exc' = h.exc
              /\ nfail' = "get"
    /\ UNCHANGED << sheet, all_data, email_col, row_num, website_email,
                    result, emails, driver, wfail, written >>
    /\ UNCHANGED << starts, quit_calls, col_hist, text >>

\* phone_elements = find_elements(...); result['phone'] = first text
NaverPhone ==
    /\ pc = "naver_phone"
    /\ \/ /\ naver_result' = [naver_result EXCEPT !.phone = page.phone]
          /\ pc' = "naver_homepage"
          /\ UNCHANGED << nfail, exc >>
       \/ LET h == SearchOnError("phone", naver_result)
          IN  /\ naver_result' = h.nr
              /\ pc' = h.pc
              /\ exc' = h.exc
              /\ nfail' = "phone"
    /\ UNCHANGED << sheet, all_data, email_col, row_num, page, website_email,
                    result, emails, driver, calls, wfail, written >>
    /\ UNCHANGED << starts, quit_calls, col_hist, text >>

\* homepage_elements = find_elements(...); the loop over get_attribute('href').
\* bad = 0: no call raises; bad = k: get_attribute raises on the k-th anchor
\* (reached only if no earlier anchor was accepted); bad = Len + 1:
\* find_elements itself raises.
NaverHomepage ==
    /\ pc = "naver_homepage"
    /\ \E bad \in 0..(Len(page.links) + 1) :
          LET q == FirstHomepageIndex(page.links)
              raises == bad # 0 /\ (bad = Len(page.links) + 1 \/ q = 0 \/ bad <= q)
              h == SearchOnError("homepage", naver_result)
          IN  IF raises
              THEN /\ naver_result' = h.nr
                   /\ pc' = h.pc
                   /\ exc' = h.exc
                   /\ nfail' = "homepage"
              ELSE /\ naver_result' =
                          [naver_result EXCEPT
                              !.homepage = FirstHomepage(page.links)]
                   /\ pc' = "naver_source"
                   /\ UNCHANGED << nfail, exc >>
    /\ UNCHANGED << sheet, all_data, email_col, row_num, page, website_email,
                    result, emails, driver, calls, wfail, written >>
    /\ UNCHANGED << starts, quit_calls, col_hist, text >>

\* page_source, findall, the valid_emails filter, return result
NaverSource ==
    /\ pc = "naver_source"
    /\ \/ /\ emails' = page.emails
          /\ naver_result' =
                 [naver_result EXCEPT !.email = FirstValidEmail(page.emails)]
          /\ pc' = "find_decide"
          /\ UNCHANGED << nfail, exc >>
       \/ LET h == SearchOnError("source", naver_result)
          IN  /\ naver_result' = h.nr
              /\ pc' = h.pc
              /\ exc' = h.exc
              /\ nfail' = "source"
              /\ UNCHANGED emails
    /\ UNCHANGED << sheet, all_data, email_col, row_num, page, website_email,
                    result, driver, calls, wfail, written >>
    /\ UNCHANGED << starts, quit_calls, col_hist, text >>

(***************************************************************************)
(* find_email, after search_naver_place has returned                       *)
(***************************************************************************)
FindDecide ==
    /\ pc = "find_decide"
    /\ LET stage == StageAfterSearch(naver_result)
       IN  /\ pc' = IF stage = "website" THEN "web_get" ELSE "write_email"
           /\ result' = IF stage = "return_naver"
                        THEN NaverFound(naver_result.email)
                        ELSE result
    /\ page' = BlankPage
    /\ UNCHANGED << sheet, all_data, email_col, row_num, naver_result,
                    website_email, emails, driver, exc, calls, nfail, wfail,
                    written >>
    /\ UNCHANGED << starts, quit_calls, col_hist, text >>

(***************************************************************************)
(* extract_email_from_website(naver_result['homepage'])                    *)
(***************************************************************************)

\* URL normalisation and self.driver.get(url)
WebGet ==
    /\ pc = "web_get"
    /\ calls' = Append(calls, "get_homepage")
    /\ \/ \E pg \in WebPages :
             /\ page' = pg
             /\ pc' = "web_links"
             /\ UNCHANGED << website_email, wfail, exc >>
       \/ LET h == WebsiteOnError("get")
          IN  /\ page' = BlankPage
              /\ website_email' = h.email
              /\ pc' = h.pc
              /\ exc' = h.exc
              /\ wfail' = "get"
    /\ UNCHANGED << sheet, all_data, email_col, row_num, naver_result, result,
                    emails, driver, nfail, written >>
    /\ UNCHANGED << starts, quit_calls, col_hist, text >>

\* contact_links = find_elements(By.XPATH, ...)
WebLinks ==
    /\ pc = "web_links"
    /\ \/ /\ pc' = IF page.contact THEN "web_click" ELSE "web_source"
          /\ UNCHANGED << website_email, wfail, exc >>
       \/ LET h == WebsiteOnError("links")
          IN  /\ website_email' = h.email
              /\ pc' = h.pc
              /\ exc' = h.exc
              /\ wfail' = "links"
    /\ UNCHANGED << sheet, all_data, email_col, row_num, page, naver_result,
                    result, emails, driver, calls, nfail, written >>
    /\ UNCHANGED << starts, quit_calls, col_hist, text >>

\* contact_links[0].click(): the session now renders the contact page
WebClick ==
    /\ pc = "web_click"
    /\ calls' = Append(calls, "click")
    /\ \/ \E es \in EmailSamples :
             /\ page' = [page EXCEPT !.emails = es, !.contact = FALSE]
             /\ pc' = "web_source"
             /\ UNCHANGED << website_email, wfail, exc >>
       \/ LET h == WebsiteOnError("click")
          IN  /\ website_email' = h.email
              /\ pc' = h.pc
              /\ exc' = h.exc
              /\ wfail' = "click"
              /\ UNCHANGED page
    /\ UNCHANGED << sheet, all_data, email_col, row_num, naver_result, result,
                    emails, driver, nfail, written >>
    /\ UNCHANGED << starts, quit_calls, col_hist, text >>

\* page_source, findall, the keyword loops, return
WebSource ==
    /\ pc = "web_source"
    /\ \/ /\ emails' = page.emails
          /\ website_email' = PickBest(page.emails)
          /\ pc' = "web_return"
          /\ UNCHANGED << wfail, exc >>
       \/ LET h == WebsiteOnError("source")
          IN  /\ website_email' = h.email
              /\ pc' = h.pc
              /\ exc' = h.exc
              /\ wfail' = "source"
              /\ UNCHANGED emails
    /\ UNCHANGED << sheet, all_data, email_col, row_num, page, naver_result,
                    result, driver, calls, nfail, written >>
    /\ UNCHANGED << starts, quit_calls, col_hist, text >>

\* find_email, after extract_email_from_website has returned
WebReturn ==
    /\ pc = "web_return"
    /\ result' = ResultAfterWebsite(website_email)
    /\ pc' = "write_email"
    /\ page' = BlankPage
    /\ UNCHANGED << sheet, all_data, email_col, row_num, naver_result,
                    website_email, emails, driver, exc, calls, nfail, wfail,
                    written >>
    /\ UNCHANGED << starts, quit_calls, col_hist, text >>

(***************************************************************************)
(* crawl_all_companies: the write-back of one result, one update_cell per  *)
(* step; an update_cell that raises leaves crawl_all_companies.            *)
(***************************************************************************)
WriteEmail ==
    /\ pc = "write_email"
    /\ \/ /\ sheet' = UpdateCell(sheet, row_num, email_col, EmailCell(result))
          /\ pc' = IF WritesSource(result) THEN "write_source"
                   ELSE "write_conf"
          /\ UNCHANGED exc
       \/ /\ exc' = "sheet"
          /\ pc' = "finally"
          /\ UNCHANGED sheet
    /\ UNCHANGED << all_data, email_col, row_num, page, naver_result,
                    website_email, result, emails, driver, calls, nfail,
                    wfail, written >>
    /\ UNCHANGED << starts, quit_calls, col_hist, text >>

WriteSource ==
    /\ pc = "write_source"
    /\ \/ /\ sheet' = UpdateCell(sheet, row_num, email_col + 1,
                                 << result.source >>)
          /\ pc' = "write_conf"
          /\ UNCHANGED exc
       \/ /\ exc' = "sheet"
          /\ pc' = "finally"
          /\ UNCHANGED sheet
    /\ UNCHANGED << all_data, email_col, row_num, page, naver_result,
                    website_email, result, emails, driver, calls, nfail,
                    wfail, written >>
    /\ UNCHANGED << starts, quit_calls, col_hist, text >>

WriteConfidence ==
    /\ pc = "write_conf"
    /\ \/ /\ sheet' = UpdateCell(sheet, row_num, email_col + 2,
                                 ConfCell(result))
          /\ written' = written \cup {row_num}
          /\ row_num' = NextRow(row_num)
          /\ pc' = "loop"
          /\ UNCHANGED exc
       \/ /\ exc' = "sheet"
          /\ pc' = "finally"
          /\ UNCHANGED << sheet, written, row_num >>
    /\ UNCHANGED << all_data, email_col, page, naver_result, website_email,
                    result, emails, driver, calls, nfail, wfail >>
    /\ UNCHANGED << starts, quit_calls, col_hist, text >>

(***************************************************************************)
(* An operator interrupt (KeyboardInterrupt).  It is a BaseException, so   *)
(* none of the `except Exception` clauses of the resolvers or of           *)
(* crawl_all_companies catches it: it unwinds to main's                    *)
(* `except KeyboardInterrupt` from wherever the thread is.  The frames it   *)
(* unwinds are gone, so their locals are cleared.                          *)
(***************************************************************************)
RunningPcs ==
    { "main_connect", "main_setup", "add_col", "get_all", "loop",
      "naver_get", "naver_phone", "naver_homepage", "naver_source",
      "find_decide", "web_get", "web_links", "web_click", "web_source",
      "web_return", "write_email", "write_source", "write_conf" }

Interrupt ==
    /\ pc \in RunningPcs
    /\ exc' = "interrupt"
    /\ pc' = "finally"
    /\ page' = BlankPage
    /\ naver_result' = NoNaverResult
    /\ website_email' = None
    /\ result' = EmptyResult
    /\ emails' = << >>
    /\ calls' = << >>
    /\ nfail' = "none"
    /\ wfail' = "none"
    /\ UNCHANGED << sheet, all_data, email_col, row_num, driver, written,
                    starts, quit_calls, col_hist, text >>

(***************************************************************************)
(* main: the finally clause, crawler.close()                               *)
(***************************************************************************)

\* a variant of close() that leaves the browser running
DriverAfterClose_Leak(d) == d

\* close(): `if self.driver: self.driver.quit()`
DriverAfterClose(d) == IF d = "open" THEN "quit" ELSE d

\* close(): whether driver.quit() is called
QuitCalled(d) == d = "open"

Close ==
    /\ pc = "finally"
    /\ driver' = DriverAfterClose(driver)
    /\ quit_calls' = IF QuitCalled(driver) THEN quit_calls + 1 ELSE quit_calls
    /\ pc' = "end"
    /\ UNCHANGED << sheet, all_data, email_col, row_num, page, naver_result,
                    website_email, result, emails, exc, calls, nfail, wfail,
                    written >>
    /\ UNCHANGED << starts, col_hist, text >>

Next ==
    \/ ConnectGoogleSheet
    \/ SetupSelenium
    \/ AddEmailColumnStep
    \/ GetAllValues
    \/ LoopStep
    \/ NaverGet
    \/ NaverPhone
    \/ NaverHomepage
    \/ NaverSource
    \/ FindDecide
    \/ WebGet
    \/ WebLinks
    \/ WebClick
    \/ WebSource
    \/ WebReturn
    \/ WriteEmail
    \/ WriteSource
    \/ WriteConfidence
    \/ Interrupt
    \/ Close

Spec == Init /\ [][Next]_vars

(***************************************************************************)
(* The two selection functions on their own: Init draws a findall() result *)
(* from every list of at most MaxEmails pool addresses, the actions apply  *)
(* the website stage's selection and the search stage's filter to it.      *)
(***************************************************************************)
PickInit ==
    /\ pc = "pure"
    /\ emails \in SeqsUpTo(EmailPool, MaxEmails)
    /\ sheet = MkSheet([r \in DataRows |-> COMPANY], FALSE,
                       [r \in DataRows |-> "missed"])
    /\ all_data = << >>
    /\ email_col = 0
    /\ row_num = 0
    /\ page = BlankPage
    /\ naver_result = NoNaverResult
    /\ website_email = None
    /\ result = EmptyResult
    /\ driver = "none"
    /\ exc = "none"
    /\ calls = << >>
    /\ nfail = "none"
    /\ wfail = "none"
    /\ written = {}
    /\ starts = [r \in DataRows |-> 0]
    /\ quit_calls = 0
    /\ col_hist = << >>
    /\ text = << >>

\* extract_email_from_website, from findall() to its return
PurePick ==
    /\ pc = "pure"
    /\ website_email' = PickBest(emails)
    /\ pc' = "pure_picked"
    /\ UNCHANGED << sheet, all_data, email_col, row_num, page, naver_result,
                    result, emails, driver, exc, calls, nfail, wfail,
                    written >>
    /\ UNCHANGED << starts, quit_calls, col_hist, text >>

\* search_naver_place, from findall() to result['email']
PureFilter ==
    /\ pc = "pure"
    /\ naver_result' = [naver_result EXCEPT !.email = FirstValidEmail(emails)]
    /\ pc' = "pure_filtered"
    /\ UNCHANGED << sheet, all_data, email_col, row_num, page, website_email,
                    result, emails, driver, exc, calls, nfail, wfail,
                    written >>
    /\ UNCHANGED << starts, quit_calls, col_hist, text >>

PickNext == PurePick \/ PureFilter

SpecPick == PickInit /\ [][PickNext]_vars

(***************************************************************************)
(* add_email_column on its own: successive runs call it again and again on *)
(* the worksheet the earlier calls left behind.                            *)
(***************************************************************************)
ColInit ==
    /\ pc = "col"
    /\ sheet \in InitSheets
    /\ all_data = << >>
    /\ email_col = 0
    /\ row_num = 0
    /\ page = BlankPage
    /\ naver_result = NoNaverResult
    /\ website_email = None
    /\ result = EmptyResult
    /\ emails = << >>
    /\ driver = "none"
    /\ exc = "none"
    /\ calls = << >>
    /\ nfail = "none"
    /\ wfail = "none"
    /\ written = {}
    /\ starts = [r \in DataRows |-> 0]
    /\ quit_calls = 0
    /\ col_hist = << >>
    /\ text = << >>

\* one call of add_email_column; the history keeps what it found, returned
\* and wrote
AddColumnCall ==
    /\ pc = "col"
    /\ Len(col_hist) < MaxCalls
    /\ \E fail \in 0..4 :
          LET r == AddEmailColumn(sheet, fail)
          IN  /\ sheet' = r.sheet
              /\ email_col' = r.col
              /\ col_hist' =
                     Append(col_hist,
                            [col |-> r.col, writes |-> r.writes,
                             fail |-> fail, before |-> Headers(sheet)])
    /\ UNCHANGED << pc, all_data, row_num, page, naver_result, website_email,
                    result, emails, driver, exc, calls, nfail, wfail,
                    written, starts, quit_calls, text >>

ColNext == AddColumnCall

SpecCol == ColInit /\ [][ColNext]_vars

(***************************************************************************)
(* email_pattern, the compiled regular expression                          *)
(*   \b[A-Za-z0-9._%+-]+@[A-Za-z0-9.-]+\.[A-Z|a-z]{2,}\b                   *)
(* and its findall(), computed on page texts over a small alphabet: one    *)
(* letter, one digit, "@", "." and "|".                                    *)
(***************************************************************************)
TextChars == { "a", "1", "@", ".", "|" }

Letters == { "a" }
Digits == { "1" }

\* \w of Python's re, on the alphabet
WordChars == Letters \cup Digits \cup { "_" }

\* [A-Za-z0-9._%+-]
LocalClass == Letters \cup Digits \cup { ".", "_", "%", "+", "-" }

\* [A-Za-z0-9.-]
DomainClass == Letters \cup Digits \cup { ".", "-" }

\* [A-Z|a-z]: inside a character class "|" is a literal
TldClass == Letters \cup { "|" }

WordAt(t, i) == i >= 1 /\ i <= Len(t) /\ t[i] \in WordChars

\* \b between t[i] and t[i + 1] (i = 0 and i = Len(t) are the two ends)
Boundary(t, i) == WordAt(t, i) # WordAt(t, i + 1)

AllIn(t, from, to, class) == \A k \in from..to : t[k] \in class

Max(S) == CHOOSE x \in S : \A y \in S : y <= x

\* the pairs <<d, e>> at which a match starting at s can end its domain part
\* (d) and its final label (e).  The local part is the whole run of
\* LocalClass characters from s: "@" is not in the class, so no shorter
\* local part can be followed by "@".
MatchEnds(t, s) ==
    LET runs == {n \in s..Len(t) : AllIn(t, s, n, LocalClass)}
        at == IF runs = {} THEN 0 ELSE Max(runs) + 1
    IN  IF ~Boundary(t, s - 1) \/ at = 0 \/ at > Len(t) THEN {}
        ELSE IF t[at] # "@" THEN {}
        ELSE { de \in (1..Len(t)) \X (1..Len(t)) :
                 /\ de[1] >= at + 1
                 /\ AllIn(t, at + 1, de[1], DomainClass)
                 /\ de[1] + 1 <= Len(t)
                 /\ t[de[1] + 1] = "."
                 /\ de[2] >= de[1] + 3
                 /\ AllIn(t, de[1] + 2, de[2], TldClass)
                 /\ Boundary(t, de[2]) }

\* where the match starting at s ends, 0 if there is none: the greedy domain
\* part is tried longest first, and for it the greedy final label longest
\* first
MatchEnd(t, s) ==
    LET E == MatchEnds(t, s)
    IN  IF E = {} THEN 0
        ELSE LET d == Max({de[1] : de \in E})
             IN  Max({de[2] : de \in {x \in E : x[1] = d}})

\* email_pattern.findall(text): scan left to right, matches do not overlap
RECURSIVE FindAllFrom(_, _)
FindAllFrom(t, s) ==
    IF s > Len(t) THEN << >>
    ELSE IF MatchEnd(t, s) = 0 THEN FindAllFrom(t, s + 1)
    ELSE << SubSeq(t, s, MatchEnd(t, s)) >> \o FindAllFrom(t, MatchEnd(t, s) + 1)

FindAll(t) == FindAllFrom(t, 1)

RegexInit ==
    /\ pc = "regex"
    /\ text \in SeqsUpTo(TextChars, MaxText)
    /\ sheet = MkSheet([r \in DataRows |-> COMPANY], FALSE,
                       [r \in DataRows |-> "missed"])
    /\ all_data = << >>
    /\ email_col = 0
    /\ row_num = 0
    /\ page = BlankPage
    /\ naver_result = NoNaverResult
    /\ website_email = None
    /\ result = EmptyResult
    /\ emails = << >>
    /\ driver = "none"
    /\ exc = "none"
    /\ calls = << >>
    /\ nfail = "none"
    /\ wfail = "none"
    /\ written = {}
    /\ starts = [r \in DataRows |-> 0]
    /\ quit_calls = 0
    /\ col_hist = << >>

\* emails = self.email_pattern.findall(page_source)
FindAllStep ==
    /\ pc = "regex"
    /\ emails' = FindAll(text)
    /\ pc' = "regex_done"
    /\ UNCHANGED << sheet, all_data, email_col, row_num, page, naver_result,
                    website_email, result, driver, exc, calls, nfail, wfail,
                    written, starts, quit_calls, col_hist, text >>

RegexNext == FindAllStep

SpecRegex == RegexInit /\ [][RegexNext]_vars

(***************************************************************************)
(* Properties.                                                             *)
(***************************************************************************)

\* find_email has returned for the current company and its locals are live
Returned ==
    \/ pc \in {"write_email", "write_source", "write_conf"}
    \/ pc = "loop" /\ calls # << >>

\* extract_email_from_website was entered for the current company
WebsiteInvoked == \E i \in 1..Len(calls) : calls[i] \in {"get_homepage", "click"}

InWebsiteStage ==
    pc \in {"web_get", "web_links", "web_click", "web_source", "web_return"}

\* C1: once search_naver_place has returned a non-empty e-mail for a company,
\* the website stage is never entered for it: no homepage navigation and no
\* contact-link click are made, also when a homepage was discovered.
C1_ShortCircuit ==
    naver_result.email # None => ~WebsiteInvoked /\ ~InWebsiteStage

C1_Witness ==
    /\ pc = "write_conf"
    /\ naver_result.email # None
    /\ naver_result.homepage # None
    /\ calls = << "get_search" >>

\* C2: every result find_email returns has confidence HIGH exactly when the
\* source is the search surface, MEDIUM exactly when it is the website, LOW
\* exactly when there is no source, and an e-mail exactly when there is a
\* source.
C2_SourceConfidence ==
    Returned =>
        /\ result.source \in {SRC_NAVER, SRC_WEBSITE, SRC_NONE}
        /\ result.confidence = "HIGH" <=> result.source = SRC_NAVER
        /\ result.confidence = "MEDIUM" <=> result.source = SRC_WEBSITE
        /\ result.confidence = "LOW" <=> result.source = SRC_NONE
        /\ result.email # None <=> result.source \in {SRC_NAVER, SRC_WEBSITE}

C2_Witness ==
    /\ pc = "write_email"
    /\ result.source = SRC_WEBSITE
    /\ result.confidence = "MEDIUM"
    /\ result.email # None

\* C3: no failure of the browser (navigation, element lookup, attribute read,
\* click, page text) leaves find_email as an exception: what ends the crawl
\* early is a spreadsheet exception or an operator interrupt, never a browser
\* exception; and when the search stage
\* failed and the website stage failed or was not entered, the result
\* returned is {None, None, LOW}.
C3_NeverRaises ==
    /\ exc \in {"none", "sheet", "interrupt"}
    /\ (nfail # "none" \/ wfail # "none") /\ pc \in {"finally", "end"}
           => exc = "sheet"
    /\ Returned /\ nfail # "none" /\ (wfail # "none" \/ ~WebsiteInvoked)
           => result = [email |-> None, source |-> SRC_NONE,
                        confidence |-> "LOW"]

C3_Witness ==
    /\ pc = "write_email"
    /\ nfail = "source"
    /\ wfail = "click"
    /\ result.confidence = "LOW"

\* position of a metadata lookup in search_naver_place's extraction block
FieldRank(site) ==
    CASE site = "phone" -> 1
      [] site = "homepage" -> 2
      [] site = "source" -> 3
      [] OTHER -> 4

\* C4 as stated: when the search page loaded and one metadata lookup fails,
\* only that field is None; the other fields are what the page yields.
C4_OnlyThatField ==
    pc = "find_decide" /\ nfail \in {"phone", "homepage", "source"} =>
        /\ naver_result.phone =
               IF nfail = "phone" THEN None ELSE page.phone
        /\ naver_result.homepage =
               IF nfail = "homepage" THEN None ELSE FirstHomepage(page.links)
        /\ naver_result.email =
               IF nfail = "source" THEN None
               ELSE FirstValidEmail(page.emails)

\* C4 amended: when the search page loaded and one metadata lookup fails,
\* that field and every field looked up after it (the order is phone,
\* homepage, e-mail) are None; the fields looked up before it are what the
\* page yields.
C4_FailedAndLaterFields ==
    pc = "find_decide" /\ nfail \in {"phone", "homepage", "source"} =>
        /\ naver_result.phone =
               IF FieldRank(nfail) > 1 THEN page.phone ELSE None
        /\ naver_result.homepage =
               IF FieldRank(nfail) > 2 THEN FirstHomepage(page.links)
               ELSE None
        /\ naver_result.email = None

C4_Witness ==
    /\ pc = "find_decide"
    /\ nfail = "source"
    /\ naver_result.phone # None
    /\ naver_result.homepage = H_acme
    /\ page.emails # << >>

\* C5: when the search stage yields no e-mail, the website stage is entered
\* exactly when a homepage was discovered; the result is {e-mail, website,
\* MEDIUM} exactly when it was entered and returned an e-mail, and
\* {None, None, LOW} otherwise.
C5_Tiered ==
    Returned /\ naver_result.email = None =>
        /\ WebsiteInvoked <=> naver_result.homepage # None
        /\ result =
               IF WebsiteInvoked /\ website_email # None
               THEN [email |-> website_email, source |-> SRC_WEBSITE,
                     confidence |-> "MEDIUM"]
               ELSE [email |-> None, source |-> SRC_NONE,
                     confidence |-> "LOW"]

C5_Witness ==
    /\ pc = "write_email"
    /\ naver_result.email = None
    /\ naver_result.homepage # None
    /\ website_email = E_ceo
    /\ result.source = SRC_WEBSITE

\* the grammar's parts of an address, and the suffix test, as the
\* specification words them
AtPos(e) == Min({i \in 1..Len(e) : e[i] = "@"})
LocalPart(e) == SubSeq(e, 1, AtPos(e) - 1)
DomainPart(e) == SubSeq(e, AtPos(e) + 1, Len(e))

EndsWith(s, t) ==
    Len(t) <= Len(s) /\ SubSeq(s, Len(s) - Len(t) + 1, Len(s)) = t

\* the k-th priority keyword occurs in the lower-cased address
Hit(k, e) == Contains(Lower(e), priority_keywords[k])

\* the k-th priority keyword occurs in the lower-cased local part
LocalHit(k, e) == Contains(Lower(LocalPart(e)), priority_keywords[k])

KeywordIndexes == 1..Len(priority_keywords)

\* C6: keyword priority dominates page order: when some candidate contains a
\* keyword, the address returned is the first candidate, in page order, that
\* contains the earliest keyword contained in any candidate.
C6_PriorityDominates ==
    pc = "pure_picked" =>
        \A k \in KeywordIndexes :
            /\ \E i \in 1..Len(emails) : Hit(k, emails[i])
            /\ \A j \in 1..(k - 1) : \A i \in 1..Len(emails) :
                   ~Hit(j, emails[i])
            => \E i \in 1..Len(emails) :
                   /\ Hit(k, emails[i])
                   /\ \A h \in 1..(i - 1) : ~Hit(k, emails[h])
                   /\ website_email = emails[i]

\* the example of the specification: the later keyword comes first in the page
C6_Witness ==
    /\ pc = "pure_picked"
    /\ emails = << E_zzz, E_boss >>
    /\ website_email = E_boss

\* C7 as stated: only a keyword in the local part makes a candidate match, so
\* the address returned is the first candidate whose local part contains the
\* earliest keyword contained in any local part, and the first candidate when
\* no local part contains a keyword.
C7_LocalPartOnly ==
    pc = "pure_picked" /\ emails # << >> =>
        LET K == {k \in KeywordIndexes :
                     \E i \in 1..Len(emails) : LocalHit(k, emails[i])}
        IN  IF K = {} THEN website_email = emails[1]
            ELSE \E i \in 1..Len(emails) :
                     /\ LocalHit(Min(K), emails[i])
                     /\ \A h \in 1..(i - 1) : ~LocalHit(Min(K), emails[h])
                     /\ website_email = emails[i]

\* C8: when no candidate contains a priority keyword the address returned is
\* the first candidate, and None when there is no candidate.
C8_Fallback ==
    pc = "pure_picked" =>
        /\ emails = << >> => website_email = None
        /\ /\ emails # << >>
           /\ \A k \in KeywordIndexes : \A i \in 1..Len(emails) :
                  ~Hit(k, emails[i])
           => website_email = emails[1]

C8_Witness ==
    /\ pc = "pure_picked"
    /\ emails = << E_bob, E_naver >>
    /\ website_email = E_bob

\* the domain of the address ends in an excluded domain
ExcludedDomain(e) ==
    EndsWith(DomainPart(e), NAVER) \/ EndsWith(DomainPart(e), GOOGLE)

\* C9 as stated: the search stage returns the first address, in page order,
\* whose domain does not end in naver.com or google.com, and None when there
\* is no such address.
C9_DomainSuffixFilter ==
    pc = "pure_filtered" =>
        LET keep == {i \in 1..Len(emails) : ~ExcludedDomain(emails[i])}
        IN  naver_result.email =
                IF keep = {} THEN None ELSE emails[Min(keep)]

\* C10 as stated: after the write-back of a row its e-mail cell holds the
\* e-mail found or the not-found marker, its source cell one of the two labels
\* when an e-mail was found and nothing when none was found, and its
\* confidence cell one of HIGH, MEDIUM, LOW, NONE.
C10_WriteBackCells ==
    \A r \in written :
        LET e == sheet[r][email_col]
            s == sheet[r][email_col + 1]
            c == sheet[r][email_col + 2]
        IN  /\ e = NOT_FOUND \/ e \in EmailPool
            /\ e # NOT_FOUND => s \in {<< SRC_NAVER >>, << SRC_WEBSITE >>}
            /\ e = NOT_FOUND => s = None
            /\ c \in {<< "HIGH" >>, << "MEDIUM" >>, << "LOW" >>, << "NONE" >>}
            /\ pc = "loop" /\ calls # << >> /\ r = row_num - 1
                   => e = IF result.email # None THEN result.email
                          ELSE NOT_FOUND

\* the thread is inside find_email or the write-back of the row row_num
InCompany ==
    pc \in { "naver_get", "naver_phone", "naver_homepage", "naver_source",
             "find_decide", "web_get", "web_links", "web_click",
             "web_source", "web_return", "write_email", "write_source",
             "write_conf" }

\* C12 as stated: when the run stops because of an interrupt, every company
\* whose processing had begun has its discovery finished and all its
\* write-back cells written.
C12_InterruptBetweenCompanies ==
    exc = "interrupt" =>
        \A r \in DataRows : starts[r] > 0 => r \in written

NavigationOrder == << "get_search", "get_homepage", "click" >>

\* C13: within one find_email call the browser is asked for at most one
\* search navigation, then at most one homepage navigation, then at most one
\* contact-link click, in that order; nothing is attempted twice, also after
\* a failure.
C13_NavigationBudget ==
    /\ Len(calls) <= Len(NavigationOrder)
    /\ \A i \in 1..Len(calls) : calls[i] = NavigationOrder[i]

C13_Witness ==
    /\ pc = "write_email"
    /\ calls = NavigationOrder
    /\ wfail = "click"

\* C14: rows are processed one after another in ascending order on the one
\* session: find_email is entered at most once per row and only for rows with
\* a company name; while a row is being processed every earlier processed row
\* has its write-back complete and no later row has been touched; a row that
\* was not processed (an empty company name among them) keeps its cells; and
\* when the loop runs to its end every named row was processed exactly once.
C14_Sequential ==
    all_data # << >> =>
        /\ \A r \in DataRows :
              /\ starts[r] <= 1
              /\ starts[r] = 1 =>
                     /\ all_data[r][2] # None
                     /\ r <= row_num
                     /\ r < row_num => r \in written
              /\ r \in written => starts[r] = 1 /\ r < row_num
              /\ starts[r] = 0 => sheet[r] = all_data[r]
              /\ all_data[r][2] = None => starts[r] = 0
        /\ InCompany => starts[row_num] = 1 /\ row_num \notin written
        /\ pc \in {"finally", "end"} /\ exc = "none" /\ row_num > NumRows + 1
               => \A r \in DataRows :
                      all_data[r][2] # None => starts[r] = 1 /\ r \in written

C14_Witness ==
    /\ pc = "finally"
    /\ exc = "none"
    /\ Cardinality(written) >= 2

\* C16: however main ends (normal completion, early return after a failed
\* bootstrap step, an exception out of crawl_all_companies, an operator
\* interrupt), a driver that was created has been quit; quit is called at
\* most once, and never when no driver was created.
C16_DriverQuit ==
    /\ quit_calls <= 1
    /\ pc = "end" => driver # "open"
    /\ quit_calls = 1 <=> driver = "quit"
    /\ driver = "none" => quit_calls = 0

C16_Witness ==
    /\ pc = "end"
    /\ exc = "interrupt"
    /\ driver = "quit"
    /\ quit_calls = 1

ReservedHeaders == << HDR_EMAIL, HDR_SOURCE, HDR_CONF >>

\* number of cells of the header row that hold h
HeaderCount(s, h) == Cardinality({c \in 1..NumCols : s[1][c] = h})

\* the i-th call found no reserved header and no call of it raised
FreshCompleted(i) ==
    /\ col_hist[i].fail = 0
    /\ \A c \in 1..Len(col_hist[i].before) :
           col_hist[i].before[c] \notin
               {ReservedHeaders[k] : k \in 1..Len(ReservedHeaders)}

\* C11: a call of add_email_column on a worksheet without the reserved
\* headers writes the three of them once, right after the last existing
\* header, and returns the first new column; every later call on the
\* resulting worksheet (whose header read does not raise) writes no cell and
\* returns the same column, so no reserved header ever occurs twice.
C11_Idempotent ==
    /\ \A k \in 1..Len(ReservedHeaders) :
           HeaderCount(sheet, ReservedHeaders[k]) <= 1
    /\ \A i \in 1..Len(col_hist) :
           /\ FreshCompleted(i) =>
                  /\ col_hist[i].writes = Len(ReservedHeaders)
                  /\ col_hist[i].col = Len(col_hist[i].before) + 1
                  /\ Headers(sheet) = col_hist[i].before \o ReservedHeaders
           /\ col_hist[i].col # 0 =>
                  \A j \in (i + 1)..Len(col_hist) :
                      col_hist[j].fail # 1 =>
                          /\ col_hist[j].col = col_hist[i].col
                          /\ col_hist[j].writes = 0

C11_Witness ==
    /\ Len(col_hist) >= 2
    /\ FreshCompleted(1)
    /\ col_hist[1].writes = 3
    /\ col_hist[2].col = col_hist[1].col
    /\ col_hist[2].writes = 0

\* the e-mail grammar of the data model: a non-empty local part of
\* [A-Za-z0-9._%+-], one "@", a domain of [A-Za-z0-9.-] with at least one dot
\* whose final label is two or more letters and nothing else
InGrammar(e) ==
    \E at \in 2..Len(e) : \E dot \in (at + 2)..Len(e) :
        /\ e[at] = "@"
        /\ AllIn(e, 1, at - 1, LocalClass)
        /\ AllIn(e, at + 1, dot - 1, DomainClass)
        /\ e[dot] = "."
        /\ Len(e) - dot >= 2
        /\ AllIn(e, dot + 1, Len(e), Letters)

\* where e first occurs in t
FirstOccurrence(t, e) ==
    Min({i \in 1..Len(t) :
            i + Len(e) - 1 <= Len(t) /\ SubSeq(t, i, i + Len(e) - 1) = e})

\* C15 as stated: every address findall returns is in the grammar, and the
\* addresses come in the order of their first appearance in the text.
C15_GrammarAndOrder ==
    pc = "regex_done" =>
        /\ \A i \in 1..Len(emails) : InGrammar(emails[i])
        /\ \A i \in 1..Len(emails) : \A j \in i..Len(emails) :
               FirstOccurrence(text, emails[i])
                   <= FirstOccurrence(text, emails[j])

====
